---- MODULE Spec2Model ----
(***************************************************************************)
(* Token-bucket admission control of distributed_rate_limiter: the Lua     *)
(* script evaluated atomically by the store (algorithms/token_bucket.py),  *)
(* the script executor (backends/redis_sync.py, backends/redis_async.py)   *)
(* and the orchestrator RateLimiter (limiter.py).                          *)
(*                                                                         *)
(* Time is the store clock, counted in ticks of 1/TicksPerSec second.      *)
(* Token counts are exact rationals, kept as integers in units of 1/Scale  *)
(* token, so that (delta * rate) / per is computed without rounding.       *)
(***************************************************************************)
EXTENDS Integers, Sequences, FiniteSets, TLC

\* ---------------------------------------------------------------- bounds
TicksPerSec == 2
MaxTime == 5
MaxCalls == 4
MaxCost == 2

\* ------------------------------------------------------------ input sets
Rates == {1, 2}
Pers == {1, 2}
Bursts == {1, 3}
None == "None"
Limiters == {"L1", "L2"}
Procs == {"p1", "p2"}
Namespaces == {"default", "other"}
Identities == {"u", "v"}
Costs == 1..MaxCost
FailStrategies == {"open", "closed"}

\* What a caller may hand to allow / allow_async, valid or not (the encodings
\* of the invalid identities are those of IsStr and StrLen below).
CallerIdentities == {"u", "", "#123", "x*5000"}
CallerCosts == {-1, 0, 1}

\* ---------------------------------------------------------------- helpers
Max(a, b) == IF a >= b THEN a ELSE b
Min(a, b) == IF a <= b THEN a ELSE b
CeilDiv(a, b) == (a + b - 1) \div b

RECURSIVE SetProduct(_)
SetProduct(S) ==
    IF S = {} THEN 1
    ELSE LET x == CHOOSE y \in S : TRUE IN x * SetProduct(S \ {x})

\* Every per in Pers divides PerUnit, so one tick of refill is a whole
\* number of token units for every configuration.
PerUnit == SetProduct(Pers)
Scale == TicksPerSec * PerUnit

\* -------------------------------------------------- algorithm descriptor
\* TokenBucket.name / RateLimitAlgorithm.redis_key_suffix
redis_key_suffix == "token_bucket"

\* TokenBucket.lua_script: the text registered with the store; its content
\* is the operator LuaScript below.
lua_script == "token_bucket.lua"

\* TokenBucket.args: [self.rate, self.per, self.burst]
args(self) == <<self.rate, self.per, self.burst>>

\* RateLimitAlgorithm.static_args is declared abstract and TokenBucket gives
\* it no body; the descriptor's static arguments are (rate, period, capacity),
\* which is what TokenBucket.args returns.
static_args(self) == args(self)

\* RateLimitAlgorithm.dynamic_args(**kwargs): the default, which TokenBucket
\* does not override, returns [] whatever the cost.
dynamic_args(self, cost) == << >>

\* ------------------------------------------------------------ the script
NoBucket == [tokens |-> -1, last_refill |-> -1, expire_at |-> -1]

\* "Initialize if missing": the token count (1/Scale units) of a key that
\* does not exist.
InitTokens_Rate(rate, capacity) == rate * Scale
InitTokens(rate, capacity) == capacity

\* "Refill logic": (delta * rate) / per tokens for delta ticks, in 1/Scale units;
\* a variant that credits whole tokens only, one that ignores the rate, then
\* the code.
Refill_Whole(delta, rate, per) == ((delta * rate * (PerUnit \div per)) \div Scale) * Scale
Refill_NoRate(delta, rate, per) == delta * (PerUnit \div per)
Refill(delta, rate, per) == delta * rate * (PerUnit \div per)

\* The admission test and the debit: tokens after the check.
Consume_NoDebit(tokens, cost) == tokens
Consume_Overdraw(tokens, cost) == tokens - cost
Consume(tokens, cost) == IF tokens >= cost THEN tokens - cost ELSE tokens

\* "Compute reset timestamp": math.ceil(now + (missing * per) / rate), in
\* whole seconds, for store time t (ticks) and missing tokens (1/Scale units);
\* a variant that rounds down, then the code.
ResetAt_Floor(t, missing, rate, per) ==
    (t * PerUnit * rate + missing * per) \div (Scale * rate)
ResetAt(t, missing, rate, per) ==
    CeilDiv(t * PerUnit * rate + missing * per, Scale * rate)

\* PEXPIRE key math.ceil(per * 2000): the store time (ticks) up to which the
\* key is kept; a variant of one period, then the code.
ExpireAt_OnePeriod(t, per) == t + per * TicksPerSec
ExpireAt(t, per) == t + 2 * per * TicksPerSec

\* LuaScript(data, t, ARGV): one atomic evaluation of the script on the hash
\* `data` stored under KEYS[1] (NoBucket: HMGET returns nil) at store time t
\* (ticks).  Returns the hash written back and the reply {allowed, tokens,
\* reset}; tokens in 1/Scale units, reset in whole seconds.
LuaScript(data, t, ARGV) ==
    LET rate == ARGV[1]
        per == ARGV[2]
        capacity == ARGV[3] * Scale
        cost == (IF Len(ARGV) >= 4 THEN ARGV[4] ELSE 1) * Scale
        missingKey == data = NoBucket
        tokens0 == IF missingKey THEN InitTokens(rate, capacity) ELSE data.tokens
        last_refill == IF missingKey THEN t ELSE data.last_refill
        delta == Max(0, t - last_refill)
        refill == Refill(delta, rate, per)
        tokens1 == Min(capacity, tokens0 + refill)
        allowed == IF tokens1 >= cost THEN 1 ELSE 0
        tokens2 == Consume(tokens1, cost)
        tokens3 == IF tokens2 < 0 THEN 0 ELSE tokens2
        missing == capacity - tokens3
        reset == ResetAt(t, missing, rate, per)
    IN  [data |-> [tokens |-> tokens3, last_refill |-> t,
                   expire_at |-> ExpireAt(t, per)],
         result |-> <<allowed, tokens3, reset>>]

\* ------------------------------------------------------------------ state
VARIABLES
    now,        \* store clock, in ticks
    engineUp,   \* whether the store answers the network
    store,      \* key -> hash {tokens, last_refill} with its expiry, or NoBucket
    params,     \* the (rate, per, burst) every limiter is constructed with
    lim,        \* limiter -> RateLimiter instance (configuration, backend state)
    call,       \* caller -> its current call of allow / allow_async
    log,        \* history: the script evaluations, in the store's order
    ncalls      \* number of calls begun

vars == <<now, engineUp, store, params, lim, call, log, ncalls>>

BurstInputs == {<< >>} \cup {<<b>> : b \in Bursts}

\* RateLimiter._hash_identity: sha256(identity.encode()).hexdigest(), on the
\* identities of the model; a variant that leaves the identity as it is, then
\* the code.
_hash_identity_Raw(identity) == identity
_hash_identity(identity) ==
    CASE identity = "u" ->
           "0bfe935e70c321c7ca3afc75ce0d0ca2f98b5422e008bb31c00c6d7f1f1c0ad6"
      [] identity = "v" ->
           "4c94485e0c21ae6c41ce1dfe7b6bfaceea5ab68e40a2476f50208e526f506080"

\* A key_func a caller may supply: maps every identity to one tenant.
key_func_tenant(identity) == "u"

\* A key that also depends on a setting that is not part of the bucket's
\* identity.
_build_key_PerStrategy(self, identity) ==
    <<IF self.fail_strategy = "closed" THEN "other" ELSE self.namespace,
      redis_key_suffix, _hash_identity(identity)>>

\* RateLimiter._build_key
_build_key(self, identity) ==
    LET raw == IF self.key_func = None THEN identity
               ELSE key_func_tenant(identity)
        hashed == _hash_identity(raw)
    IN  <<self.namespace, redis_key_suffix, hashed>>

AllKeys ==
    {<<ns, redis_key_suffix, _hash_identity(i)>> : ns \in Namespaces, i \in Identities}

\* Identities a caller may pass: "" is the empty string, "#123" stands for the
\* non-string value 123 and "x*5000" for a string of 5000 characters.
IsStr(identity) == identity # "#123"
StrLen(identity) ==
    CASE identity = "" -> 0
      [] identity = "x*5000" -> 5000
      [] OTHER -> 1

\* A validation without the length bound.
_validate_identity_NoLength(identity) ==
    IF ~IsStr(identity) THEN "IdentityError"
    ELSE IF StrLen(identity) = 0 THEN "IdentityError"
    ELSE "ok"

\* RateLimiter._validate_identity: the exception raised, or "ok".
_validate_identity(identity) ==
    IF ~IsStr(identity) THEN "IdentityError"
    ELSE IF StrLen(identity) = 0 THEN "IdentityError"
    ELSE IF StrLen(identity) > 1024 THEN "IdentityError"
    ELSE "ok"

\* exceptions.py: the classes an exception of class exc is an instance of
\* (RuntimeError, TypeError and the redis errors are not classes of the package).
Bases(exc) ==
    CASE exc = "ConfigurationError" -> {"ConfigurationError", "RateLimiterError"}
      [] exc = "IdentityError" -> {"IdentityError", "RateLimiterError"}
      [] exc = "BackendUnavailable" ->
           {"BackendUnavailable", "BackendError", "RateLimiterError"}
      [] exc = "BackendExecutionError" ->
           {"BackendExecutionError", "BackendError", "RateLimiterError"}
      [] exc = "AlgorithmError" -> {"AlgorithmError", "RateLimiterError"}
      [] OTHER -> {exc}

\* `except cls:` catches an exception of class exc.
IsInstance(exc, cls) == cls \in Bases(exc) \cup {"Exception"}

\* The calling-convention check that opens allow / allow_async: a sync-only
\* variant first, then the check of the code.
WrongConvention_SyncOnly(self, api) == api = "allow" /\ self.async_mode
WrongConvention(self, api) ==
    \/ (api = "allow" /\ self.async_mode)
    \/ (api = "allow_async" /\ ~self.async_mode)

\* `if cost <= 0: raise ConfigurationError`: a variant that lets 0 through,
\* then the check of the code.
CostRejected_Negative(cost) == cost < 0
CostRejected(cost) == cost <= 0

\* RateLimiter._build_args
_build_args(self, cost) == static_args(self) \o dynamic_args(self, cost)

\* RedisSyncBackend._script_key / RedisAsyncBackend._script_key
_script_key(script) == <<"sha256", script>>

\* types.RateLimitInfo
RateLimitInfo(limit, remaining, reset, allowed, cost) ==
    [limit |-> limit, remaining |-> remaining, reset |-> reset,
     allowed |-> allowed, cost |-> cost]

\* RateLimitInfo.retry_after: max(0, self.reset - int(self.reset)); reset is
\* the int the limiter stored, and int() of an int is that int.
int(x) == x
retry_after(self) == Max(0, self.reset - int(self.reset))

\* RateLimitInfo.reset_after
reset_after(self) == retry_after(self)

\* RateLimitInfo.as_headers (str() of an int kept as the int)
as_headers(self) ==
    [Limit |-> self.limit, Remaining |-> self.remaining, Reset |-> reset_after(self)]

\* Python's None in the place of a RateLimitInfo.
NoInfo == RateLimitInfo(-1, -1, -1, FALSE, -1)

\* What a call hands back: a returned pair (allowed, info) or a raised exception.
Return(allowed, info) ==
    [kind |-> "return", allowed |-> allowed, info |-> info, exc |-> "none"]
Raise(exc) ==
    [kind |-> "raise", allowed |-> FALSE, info |-> NoInfo, exc |-> exc]
NoRet == [kind |-> "none", allowed |-> FALSE, info |-> NoInfo, exc |-> "none"]

NoReply == [kind |-> "none", val |-> << >>, exc |-> "none", at |-> -1,
            unknown |-> FALSE]

NewCall ==
    [phase |-> "idle", l |-> "L1", identity |-> "u", cost |-> 1, api |-> "allow",
     key |-> << >>, argv |-> << >>, reply |-> NoReply, ret |-> NoRet,
     n_allow |-> 0, n_block |-> 0, n_error |-> 0, trips |-> 0,
     observer |-> "unset", seen |-> NoInfo]

Unbuilt ==
    [state |-> "unbuilt", error |-> "none", rate |-> 0, per |-> 0, burst |-> 0,
     namespace |-> "default", fail_strategy |-> "open", async_mode |-> FALSE,
     key_func |-> None, script_cache |-> {}, ping_on_start |-> FALSE]

\* An observer (on_allow, on_block, on_error) is an attribute read at each
\* call: it is unset, returns normally, or raises.
ObserverBehaviours == {"unset", "ok", "raises"}

\* RateLimiter._handle_backend_failure: the outcome and the number of
\* on_error invocations.
_handle_backend_failure(self, on_error) ==
    LET n == IF on_error = "unset" THEN 0 ELSE 1
    IN  IF on_error = "raises" THEN [ret |-> Raise("ObserverError"), n_error |-> n]
        ELSE IF self.fail_strategy = "closed"
             THEN [ret |-> Raise("BackendUnavailable"), n_error |-> n]
        ELSE [ret |-> Return(TRUE, NoInfo), n_error |-> n]

Init ==
    /\ now = 0
    /\ engineUp \in BOOLEAN
    /\ store = [k \in AllKeys |-> NoBucket]
    /\ params \in [rate : Rates, per : Pers, burst : BurstInputs]
    /\ lim = [l \in Limiters |-> Unbuilt]
    /\ call = [p \in Procs |-> NewCall]
    /\ log = << >>
    /\ ncalls = 0

\* A constructor call that raised: no instance exists; the record keeps the
\* exception and the fail_strategy / async_mode that were asked for.
Failed(fs, am, exc) ==
    [Unbuilt EXCEPT !.state = "failed", !.error = exc, !.fail_strategy = fs,
                    !.async_mode = am]

\* RateLimiter.__init__ (with RedisSyncBackend.__init__ / RedisAsyncBackend.__init__)
Construct(l, rate, per, burst, ns, fs, am, kf) ==
    /\ lim[l].state = "unbuilt"
    /\ lim' = [lim EXCEPT ![l] =
         IF rate <= 0 \/ per <= 0
           THEN Failed(fs, am, "ConfigurationError")
         ELSE IF fs \notin {"open", "closed"}
           THEN Failed(fs, am, "ConfigurationError")
         ELSE IF ~am /\ ~engineUp
           \* RedisSyncBackend.__init__: ping_on_start, self._client.ping() raises
           THEN Failed(fs, am, "ConnectionError")
         ELSE [state |-> "ready", error |-> "none", rate |-> rate, per |-> per,
               burst |-> IF burst = << >> THEN rate ELSE burst[1],
               namespace |-> ns, fail_strategy |-> fs, async_mode |-> am,
               key_func |-> kf, script_cache |-> {}, ping_on_start |-> am]]
    /\ UNCHANGED <<now, engineUp, store, params, call, log, ncalls>>

\* The store clock advances by d ticks; keys whose expiry has passed are removed.
Tick(d) ==
    /\ now + d <= MaxTime
    /\ now' = now + d
    /\ store' = [k \in AllKeys |->
                   IF store[k] # NoBucket /\ now' > store[k].expire_at
                   THEN NoBucket ELSE store[k]]
    /\ UNCHANGED <<engineUp, params, lim, call, log, ncalls>>

\* The store becomes unreachable / reachable again.
Engine_Fail ==
    /\ engineUp
    /\ engineUp' = FALSE
    /\ UNCHANGED <<now, store, params, lim, call, log, ncalls>>

Engine_Recover ==
    /\ ~engineUp
    /\ engineUp' = TRUE
    /\ UNCHANGED <<now, store, params, lim, call, log, ncalls>>


\* How a finished call is recorded: a variant that puts a timed-out request
\* on the wire a second time, then the code, which returns or raises.
Finished_Retry(c, out) ==
    IF c.reply.exc = "TimeoutError" /\ c.trips < 2
    THEN [c EXCEPT !.phase = "sent"]
    ELSE [c EXCEPT !.phase = "returned", !.ret = out.ret, !.n_error = out.n_error]
Finished(c, out) ==
    [c EXCEPT !.phase = "returned", !.ret = out.ret, !.n_error = out.n_error]

\* RateLimiter.allow / RateLimiter.allow_async up to the moment the script is
\* on the wire: the calling-convention check, validation, _build_key,
\* _build_args and the executor's work before the round trip
\* (RedisAsyncBackend._ensure_connection, _get_or_register_script).
Allow_Begin(p, l, identity, cost, api, on_error) ==
    /\ call[p].phase \in {"idle", "returned"}
    /\ lim[l].state = "ready"
    /\ ncalls' = ncalls + 1
    /\ LET self == lim[l]
           c == [NewCall EXCEPT !.l = l, !.identity = identity, !.cost = cost,
                                !.api = api]
           direct(exc) == [ret |-> Raise(exc), n_error |-> 0]
       IN
       IF WrongConvention(self, api)
         THEN /\ call' = [call EXCEPT ![p] = Finished(c, direct("RuntimeError"))]
              /\ UNCHANGED lim
       ELSE IF _validate_identity(identity) # "ok"
         THEN /\ call' = [call EXCEPT ![p] =
                            Finished(c, direct(_validate_identity(identity)))]
              /\ UNCHANGED lim
       ELSE IF CostRejected(cost)
         THEN /\ call' = [call EXCEPT ![p] = Finished(c, direct("ConfigurationError"))]
              /\ UNCHANGED lim
       ELSE IF self.async_mode /\ self.ping_on_start /\ ~engineUp
         \* _ensure_connection: the ping raises, outside execute's try block
         THEN /\ call' = [call EXCEPT ![p] =
                            Finished([c EXCEPT !.trips = 1,
                                                !.reply = [NoReply EXCEPT
                                                   !.kind = "error",
                                                   !.exc = "ConnectionError",
                                                   !.at = now]],
                                     _handle_backend_failure(self, on_error))]
              /\ UNCHANGED lim
       ELSE IF ~self.async_mode /\ _script_key(lua_script) \notin self.script_cache
         \* RedisSyncBackend._get_or_register_script: self._script_cache.get(key)
         \* is None; another thread may run before the script is registered
         THEN /\ call' = [call EXCEPT ![p] =
                            [c EXCEPT !.phase = "registering",
                                      !.key = _build_key(self, identity),
                                      !.argv = _build_args(self, cost)]]
              /\ UNCHANGED lim
       \* a cached handle, or RedisAsyncBackend._get_or_register_script, which
       \* has no await between the lookup and the insert
       ELSE /\ call' = [call EXCEPT ![p] =
                          [c EXCEPT !.phase = "sent",
                                    !.key = _build_key(self, identity),
                                    !.argv = _build_args(self, cost),
                                    !.trips = IF self.async_mode /\ self.ping_on_start
                                              THEN 1 ELSE 0]]
            /\ lim' = [lim EXCEPT ![l].ping_on_start = FALSE,
                                  ![l].script_cache = @ \cup {_script_key(lua_script)}]
    /\ UNCHANGED <<now, engineUp, store, params, log>>

\* RedisSyncBackend._get_or_register_script after a lookup that found nothing:
\* lua = self._client.register_script(script); self._script_cache[key] = lua.
Register_Script(p) ==
    /\ call[p].phase = "registering"
    /\ call' = [call EXCEPT ![p].phase = "sent"]
    /\ lim' = [lim EXCEPT ![call[p].l].script_cache = @ \cup {_script_key(lua_script)}]
    /\ UNCHANGED <<now, engineUp, store, params, log, ncalls>>

\* The replies the store can give to one EVALSHA round trip.
EngineOutcomes ==
    {"ok", "lost", "unreachable", "rejected", "malformed", "noscript", "reloaded"}

\* The round trip lua(keys=..., args=...).  "ok": the script is evaluated
\* atomically and its reply delivered; "lost": it is evaluated and the reply
\* times out; "unreachable": the request never arrives; "rejected": the store
\* refuses the script or its arguments; "malformed": the store answers with
\* something that is not a 3-element sequence.  The store may also have lost
\* its registrations and report the script unknown (NOSCRIPT); what the
\* handle returned by register_script then does is the client library's
\* business, and either can happen: "noscript": the handle raises
\* NoScriptError, a RedisError; "reloaded": the handle loads the script and
\* sends it again (EVALSHA, SCRIPT LOAD, EVALSHA) and delivers the reply.
Engine_Exec(p, outcome) ==
    /\ call[p].phase = "sent"
    /\ LET c == call[p]
           r == LuaScript(store[c.key], now, c.argv)
           entry == [key |-> c.key, at |-> now, identity |-> c.identity,
                     cost |-> c.cost, fresh |-> store[c.key] = NoBucket,
                     allowed |-> r.result[1] = 1, tokens |-> r.result[2],
                     reset |-> r.result[3],
                     namespace |-> lim[c.l].namespace,
                     resolved |-> IF lim[c.l].key_func = None THEN c.identity
                                  ELSE key_func_tenant(c.identity)]
           evaluated == outcome \in {"ok", "lost", "reloaded"}
           reply ==
             CASE outcome = "ok" ->
                    [kind |-> "result", val |-> r.result, exc |-> "none", at |-> now,
                     unknown |-> FALSE]
               [] outcome = "lost" ->
                    [kind |-> "error", val |-> << >>, exc |-> "TimeoutError", at |-> now,
                     unknown |-> FALSE]
               [] outcome = "unreachable" ->
                    [kind |-> "error", val |-> << >>, exc |-> "ConnectionError", at |-> now,
                     unknown |-> FALSE]
               [] outcome = "rejected" ->
                    [kind |-> "error", val |-> << >>, exc |-> "ResponseError", at |-> now,
                     unknown |-> FALSE]
               [] outcome = "malformed" ->
                    [kind |-> "result", val |-> <<0, 0>>, exc |-> "none", at |-> now,
                     unknown |-> FALSE]
               [] outcome = "noscript" ->
                    [kind |-> "error", val |-> << >>, exc |-> "NoScriptError", at |-> now,
                     unknown |-> TRUE]
               [] outcome = "reloaded" ->
                    [kind |-> "result", val |-> r.result, exc |-> "none", at |-> now,
                     unknown |-> TRUE]
       IN
       /\ (outcome = "unreachable") = ~engineUp
       /\ store' = IF evaluated THEN [store EXCEPT ![c.key] = r.data] ELSE store
       /\ log' = IF evaluated THEN Append(log, entry) ELSE log
       /\ call' = [call EXCEPT ![p].phase = "replied", ![p].reply = reply,
                               ![p].trips = @ + (IF outcome = "reloaded" THEN 3 ELSE 1)]
    /\ UNCHANGED <<now, engineUp, params, lim, ncalls>>

\* `if info.allowed: ... self.on_allow ... else: ... self.on_block`: the
\* observer a decision is handed to.
ObserverFor(allowed) == IF allowed THEN "on_allow" ELSE "on_block"

\* The rest of RateLimiter.allow / allow_async once the round trip is over:
\* execute's except clause, the shape check, RateLimitInfo, the observers,
\* and _handle_backend_failure for whatever was raised inside the try block.
Allow_End(p, on_allow, on_block, on_error) ==
    /\ call[p].phase = "replied"
    /\ LET c == call[p]
           self == lim[c.l]
           reply == c.reply
           failed == _handle_backend_failure(self, on_error)
       IN
       IF reply.kind = "error"
         \* execute: except RedisError: self._script_cache.clear(); raise
         THEN /\ lim' = [lim EXCEPT ![c.l].script_cache = {}]
              /\ call' = [call EXCEPT ![p] = Finished(c, failed)]
       ELSE IF Len(reply.val) # 3
         \* raise AlgorithmError, inside the try block
         THEN /\ call' = [call EXCEPT ![p] = Finished(c, failed)]
              /\ UNCHANGED lim
       ELSE
         LET info == RateLimitInfo(self.rate, reply.val[2] \div Scale, reply.val[3],
                                   reply.val[1] # 0, c.cost)
             selected == ObserverFor(info.allowed)
             observer == IF selected = "on_allow" THEN on_allow ELSE on_block
             invoked == IF observer = "unset" THEN 0 ELSE 1
             c1 == [c EXCEPT !.n_allow = IF selected = "on_allow" THEN invoked ELSE 0,
                             !.n_block = IF selected = "on_block" THEN invoked ELSE 0,
                             !.observer = observer,
                             !.seen = IF invoked = 1 THEN info ELSE NoInfo]
         IN
         /\ call' = [call EXCEPT ![p] =
                       IF observer = "raises" THEN Finished(c1, failed)
                       ELSE Finished(c1, [ret |-> Return(info.allowed, info),
                                          n_error |-> 0])]
         /\ UNCHANGED lim
    /\ UNCHANGED <<now, engineUp, store, params, log, ncalls>>

\* --------------------------------------------------------- specifications
Apis == {"allow", "allow_async"}

Next ==
    \/ \E l \in Limiters, fs \in FailStrategies, am \in BOOLEAN :
         Construct(l, params.rate, params.per, params.burst, "default", fs, am, None)
    \/ \E p \in Procs, l \in Limiters, i \in Identities, c \in Costs, api \in Apis,
          oe \in ObserverBehaviours :
         ncalls < MaxCalls /\ Allow_Begin(p, l, i, c, api, oe)
    \/ \E p \in Procs : Register_Script(p)
    \/ \E p \in Procs, o \in EngineOutcomes : Engine_Exec(p, o)
    \/ \E p \in Procs, oa \in ObserverBehaviours, ob \in ObserverBehaviours,
          oe \in ObserverBehaviours :
         Allow_End(p, oa, ob, oe)
    \/ \E d \in 1..MaxTime : Tick(d)
    \/ Engine_Fail
    \/ Engine_Recover

Spec == Init /\ [][Next]_vars


\* Sequential checks over time: one caller issues unit-cost checks through one
\* synchronous limiter; the store stays reachable, every reply is delivered
\* and observers return normally.
InitBucket == Init /\ engineUp

NextBucket ==
    \/ Construct("L1", params.rate, params.per, params.burst, "default", "open", FALSE, None)
    \/ \E i \in Identities :
         ncalls < MaxCalls /\ Allow_Begin("p1", "L1", i, 1, "allow", "ok")
    \/ Register_Script("p1")
    \/ Engine_Exec("p1", "ok")
    \/ Allow_End("p1", "ok", "ok", "ok")
    \/ \E d \in 1..MaxTime : Tick(d)

SpecBucket == InitBucket /\ [][NextBucket]_vars

\* Concurrent checks: two callers and two limiters built from the same
\* parameters issue unit-cost checks on one identity over a short span of time.
MaxTimeConc == 2
MaxCallsConc == 3

NextConc ==
    \/ Construct("L1", params.rate, params.per, params.burst, "default", "open", FALSE, None)
    \/ \E fs \in FailStrategies :
         Construct("L2", params.rate, params.per, params.burst, "default", fs, FALSE, None)
    \/ \E p \in Procs, l \in Limiters :
         ncalls < MaxCallsConc /\ Allow_Begin(p, l, "u", 1, "allow", "ok")
    \/ \E p \in Procs : Register_Script(p)
    \/ \E p \in Procs : Engine_Exec(p, "ok")
    \/ \E p \in Procs : Allow_End(p, "ok", "ok", "ok")
    \/ \E d \in 1..MaxTimeConc : now + d <= MaxTimeConc /\ Tick(d)

SpecConc == InitBucket /\ [][NextConc]_vars

\* Failure handling: one caller, one limiter of either fail strategy and
\* calling convention, any cost, a store that may be unreachable from the
\* start, may lose or refuse a request or answer out of shape, and observers
\* that may raise.
MaxTimeFail == 1
MaxCallsFail == 2

NextFail ==
    \/ \E fs \in FailStrategies, am \in BOOLEAN :
         Construct("L1", params.rate, params.per, params.burst, "default", fs, am, None)
    \/ \E c \in Costs, api \in Apis, oe \in ObserverBehaviours :
         ncalls < MaxCallsFail /\ Allow_Begin("p1", "L1", "u", c, api, oe)
    \/ Register_Script("p1")
    \/ \E o \in EngineOutcomes : Engine_Exec("p1", o)
    \/ \E oa \in ObserverBehaviours, ob \in ObserverBehaviours,
          oe \in ObserverBehaviours :
         Allow_End("p1", oa, ob, oe)
    \/ \E d \in 1..MaxTimeFail : now + d <= MaxTimeFail /\ Tick(d)
    \/ Engine_Fail
    \/ Engine_Recover

SpecFail == Init /\ [][NextFail]_vars

\* Notification: one caller issues unit-cost checks through one synchronous
\* limiter of either fail strategy; the store answers every check, and each
\* observer may be unset, return normally or raise.
MaxTimeNotify == 2
MaxCallsNotify == 4

NextNotify ==
    \/ \E fs \in FailStrategies :
         Construct("L1", params.rate, params.per, params.burst, "default", fs, FALSE, None)
    \/ \E oe \in ObserverBehaviours :
         ncalls < MaxCallsNotify /\ Allow_Begin("p1", "L1", "u", 1, "allow", oe)
    \/ Register_Script("p1")
    \/ Engine_Exec("p1", "ok")
    \/ \E oa \in ObserverBehaviours, ob \in ObserverBehaviours,
          oe \in ObserverBehaviours :
         Allow_End("p1", oa, ob, oe)
    \/ \E d \in 1..MaxTimeNotify : now + d <= MaxTimeNotify /\ Tick(d)

SpecNotify == InitBucket /\ [][NextNotify]_vars

\* Input checking: one caller hands valid and invalid identities and costs to
\* either entry point of one limiter of either fail strategy and calling
\* convention, while the store goes away and comes back and may execute a
\* request whose reply is lost.
MaxTimeCall == 1
MaxCallsCall == 2

NextCall ==
    \/ \E fs \in FailStrategies, am \in BOOLEAN :
         Construct("L1", params.rate, params.per, params.burst, "default", fs, am, None)
    \/ \E i \in CallerIdentities, c \in CallerCosts, api \in Apis :
         ncalls < MaxCallsCall /\ Allow_Begin("p1", "L1", i, c, api, "ok")
    \/ Register_Script("p1")
    \/ \E o \in {"ok", "lost", "unreachable"} : Engine_Exec("p1", o)
    \/ Allow_End("p1", "ok", "ok", "ok")
    \/ \E d \in 1..MaxTimeCall : now + d <= MaxTimeCall /\ Tick(d)
    \/ Engine_Fail
    \/ Engine_Recover

SpecCall == Init /\ [][NextCall]_vars

\* Configuration: the constructor is handed valid and invalid rate, per, burst
\* and fail_strategy, and the limiter it yields, if any, is called with valid
\* and invalid costs.
MaxTimeConfig == 1
MaxCallsConfig == 2
ConfigRates == {-1, 0, 1}
ConfigPers == {0, 1}
ConfigBursts == {<< >>, <<-1>>, <<0>>, <<2>>}
ConfigFailStrategies == FailStrategies \cup {"strict"}

InitConfig ==
    /\ now = 0
    /\ engineUp \in BOOLEAN
    /\ store = [k \in AllKeys |-> NoBucket]
    /\ params \in [rate : ConfigRates, per : ConfigPers, burst : ConfigBursts]
    /\ lim = [l \in Limiters |-> Unbuilt]
    /\ call = [p \in Procs |-> NewCall]
    /\ log = << >>
    /\ ncalls = 0

NextConfig ==
    \/ \E fs \in ConfigFailStrategies, am \in BOOLEAN :
         Construct("L1", params.rate, params.per, params.burst, "default", fs, am, None)
    \/ \E c \in CallerCosts, api \in Apis :
         ncalls < MaxCallsConfig /\ Allow_Begin("p1", "L1", "u", c, api, "ok")
    \/ Register_Script("p1")
    \/ \E o \in {"ok", "unreachable"} : Engine_Exec("p1", o)
    \/ Allow_End("p1", "ok", "ok", "ok")
    \/ \E d \in 1..MaxTimeConfig : now + d <= MaxTimeConfig /\ Tick(d)
    \/ Engine_Fail
    \/ Engine_Recover

SpecConfig == InitConfig /\ [][NextConfig]_vars

\* Keys: two limiters, each with a namespace of its own choice, the second
\* with or without a key_func, take unit-cost checks for both identities from
\* one caller.
MaxTimeKeys == 1
MaxCallsKeys == 3
KeyFuncs == {None, "tenant"}

NextKeys ==
    \/ \E ns \in Namespaces :
         Construct("L1", params.rate, params.per, params.burst, ns, "open", FALSE, None)
    \/ \E ns \in Namespaces, kf \in KeyFuncs :
         Construct("L2", params.rate, params.per, params.burst, ns, "open", FALSE, kf)
    \/ \E l \in Limiters, i \in Identities :
         ncalls < MaxCallsKeys /\ Allow_Begin("p1", l, i, 1, "allow", "ok")
    \/ Register_Script("p1")
    \/ Engine_Exec("p1", "ok")
    \/ Allow_End("p1", "ok", "ok", "ok")
    \/ \E d \in 1..MaxTimeKeys : now + d <= MaxTimeKeys /\ Tick(d)

SpecKeys == InitBucket /\ [][NextKeys]_vars


\* ------------------------------------------------------------------ claims
\* The evaluations of the script on key k, in the store's order.
KeyLog(k) == SelectSeq(log, LAMBDA e : e.key = k)

\* The configured capacity ceiling: burst, or rate when no burst is given.
Capacity == IF params.burst = << >> THEN params.rate ELSE params.burst[1]

\* Entries i..j of L are unit-cost checks evaluated at one store time.
SameInstant(L, i, j) ==
    \A n \in i..j : L[n].at = L[i].at /\ L[n].cost = 1

\* A decision the caller got back from allow: a RateLimitInfo was returned.
Decided(c) == c.phase = "returned" /\ c.ret.kind = "return" /\ c.ret.info # NoInfo

\* C1: on a key that does not exist, unit-cost checks issued one after
\* another with no store time elapsing are admitted for the first `capacity`
\* checks and check number capacity+1 is rejected; the caller is handed the
\* decision the store took.
C1_FreshKeyAdmitsCapacity ==
    /\ \A k \in AllKeys :
         LET L == KeyLog(k) IN
         \A i \in 1..Len(L) : \A j \in i..Len(L) :
            (L[i].fresh /\ SameInstant(L, i, j)) =>
               /\ (j - i + 1 <= Capacity => L[j].allowed)
               /\ (j - i + 1 = Capacity + 1 => ~L[j].allowed)
    /\ (Decided(call["p1"]) /\ log # << >>) =>
          call["p1"].ret.allowed = log[Len(log)].allowed

\* Witness of C1: a fresh key took capacity+1 >= 3 checks in one instant, the
\* last of them rejected and handed back to the caller as rejected.
C1_Witness ==
    /\ Capacity >= 2
    /\ \E k \in AllKeys :
         LET L == KeyLog(k) IN
         /\ Len(L) = Capacity + 1
         /\ L[1].fresh
         /\ SameInstant(L, 1, Capacity + 1)
         /\ \A n \in 1..Capacity : L[n].allowed
         /\ ~L[Capacity + 1].allowed
    /\ Decided(call["p1"])
    /\ ~call["p1"].ret.allowed

\* Exactly per / rate seconds lie between store times t1 <= t2 (ticks).
WaitedOneToken(t1, t2) == (t2 - t1) * params.rate = TicksPerSec * params.per

\* C2: after a rejected unit-cost check, if exactly per/rate seconds pass with
\* no other check on the key, the next unit-cost check is admitted and the
\* unit-cost check right after it, with no further time elapsed, is rejected.
C2_OneMoreAfterWait ==
    \A k \in AllKeys :
      LET L == KeyLog(k) IN
      \A i \in 1..Len(L) :
         (/\ i + 1 <= Len(L)
          /\ ~L[i].allowed /\ L[i].cost = 1 /\ L[i + 1].cost = 1
          /\ WaitedOneToken(L[i].at, L[i + 1].at)) =>
            /\ L[i + 1].allowed
            /\ (i + 2 <= Len(L) /\ SameInstant(L, i + 1, i + 2)) => ~L[i + 2].allowed

\* Witness of C2: rejection, a wait of exactly per/rate seconds, an admission,
\* and an immediate rejection, all on one key.
C2_Witness ==
    \E k \in AllKeys :
      LET L == KeyLog(k) IN
      \E i \in 1..Len(L) :
         /\ i + 2 <= Len(L)
         /\ ~L[i].allowed
         /\ L[i + 1].at > L[i].at
         /\ WaitedOneToken(L[i].at, L[i + 1].at)
         /\ L[i + 1].allowed
         /\ SameInstant(L, i + 1, i + 2)
         /\ ~L[i + 2].allowed


\* C3: every RateLimitInfo returned by allow / allow_async has limit equal to
\* the configured capacity ceiling, 0 <= remaining <= limit, and reset no
\* earlier than the store time at which the check was evaluated.
C3_DecisionWithinLimit ==
    \A p \in Procs :
      Decided(call[p]) =>
        LET info == call[p].ret.info IN
        /\ info.limit = lim[call[p].l].burst
        /\ 0 <= info.remaining
        /\ info.remaining <= info.limit
        /\ info.reset * TicksPerSec >= call[p].reply.at

\* C4: a check whose cost is larger than the configured capacity is never
\* admitted: the decision handed back for it has allowed = false.
C4_CostAboveCapacityRejected ==
    \A p \in Procs :
      (Decided(call[p]) /\ call[p].cost > lim[call[p].l].burst) =>
         ~call[p].ret.allowed

\* The number of admitted entries among the first n of L.
RECURSIVE Admitted(_, _)
Admitted(L, n) ==
    IF n = 0 THEN 0 ELSE Admitted(L, n - 1) + (IF L[n].allowed THEN 1 ELSE 0)

\* The token count a unit-cost check must find and leave behind when it is
\* evaluated dt ticks after a check that left `tokens` (1/Scale units).
TokensFound(tokens, dt) ==
    Min(Capacity * Scale, tokens + dt * params.rate * (PerUnit \div params.per))

\* C5: concurrent checks on one key take effect in a single linear order, each
\* reading the bucket its predecessor wrote: no update is lost (the stored
\* tokens are those the last check left, and every check starts from what the
\* previous one left plus the refill since), and N unit-cost checks on a fresh
\* bucket with no time elapsed admit exactly min(N, capacity).
C5_LinearOrder ==
    \A k \in AllKeys :
      LET L == KeyLog(k) IN
      /\ (store[k] # NoBucket) =>
            (L # << >> /\ store[k].tokens = L[Len(L)].tokens
                       /\ store[k].last_refill = L[Len(L)].at)
      /\ \A i \in 2..Len(L) :
            ~L[i].fresh =>
               LET found == TokensFound(L[i - 1].tokens, L[i].at - L[i - 1].at) IN
               /\ L[i].allowed = (found >= Scale)
               /\ L[i].tokens = IF found >= Scale THEN found - Scale ELSE found
      /\ \A n \in 1..Len(L) :
            (L[1].fresh /\ SameInstant(L, 1, n)) => Admitted(L, n) = Min(n, Capacity)

\* Witness of C5: the round trips of both callers overlapped on one key at one
\* store time, through different limiters, and the store admitted exactly one.
C5_Witness ==
    /\ call["p1"].phase = "replied" /\ call["p2"].phase = "replied"
    /\ call["p1"].key = call["p2"].key
    /\ call["p1"].l # call["p2"].l
    /\ call["p1"].reply.at = call["p2"].reply.at
    /\ call["p1"].reply.val[1] = 1
    /\ call["p2"].reply.val[1] = 0
    /\ Len(log) = 2

\* One limiter constructed from the shared parameters.
RefSelf ==
    [Unbuilt EXCEPT !.state = "ready", !.rate = params.rate, !.per = params.per,
                    !.burst = Capacity, !.namespace = "default"]

\* The first n checks of the log issued, in that order and at those times,
\* through the single limiter RefSelf against an empty store: the store they
\* leave and the admissions they get.
RECURSIVE Replay(_)
Replay(n) ==
    IF n = 0 THEN [st |-> [k \in AllKeys |-> NoBucket], out |-> << >>]
    ELSE LET prev == Replay(n - 1)
             e == log[n]
             k == _build_key(RefSelf, e.identity)
             held == prev.st[k]
             data == IF held # NoBucket /\ e.at > held.expire_at THEN NoBucket
                     ELSE held
             r == LuaScript(data, e.at, _build_args(RefSelf, e.cost))
         IN  [st |-> [prev.st EXCEPT ![k] = r.data],
              out |-> Append(prev.out, r.result[1] = 1)]

\* C6: limiters constructed with identical rate, per, capacity and namespace
\* address the same bucket for the same identity: the checks issued through
\* them, interleaved in any way, get the admissions one limiter gets for the
\* same checks in the same order.
C6_SameAsSingleInstance ==
    LET R == Replay(Len(log)) IN
    \A i \in 1..Len(log) : log[i].allowed = R.out[i]

\* Witness of C6: two limiters of different fail strategy have both decided
\* checks on one identity, one admitted and one rejected.
C6_Witness ==
    /\ Decided(call["p1"]) /\ Decided(call["p2"])
    /\ call["p1"].l = "L1" /\ call["p2"].l = "L2"
    /\ lim["L1"].fail_strategy # lim["L2"].fail_strategy
    /\ call["p1"].identity = call["p2"].identity
    /\ call["p1"].ret.allowed /\ ~call["p2"].ret.allowed


\* The call of caller p has ended and found the store unreachable (the
\* connection failed at the ping or at the round trip).
Unreachable(p) ==
    /\ call[p].phase = "returned"
    /\ call[p].reply.kind = "error"
    /\ call[p].reply.exc = "ConnectionError"

\* C7: with fail_strategy "open" and the store unreachable, the limiter is
\* there to be called, and allow("user") returns (True, None) and invokes the
\* error observer exactly once (n_error counts the invocations; an observer
\* that is not set is not invoked).
C7_FailOpen ==
    /\ \A l \in Limiters :
         lim[l].fail_strategy = "open" => lim[l].error # "ConnectionError"
    /\ \A p \in Procs :
         (Unreachable(p) /\ lim[call[p].l].fail_strategy = "open") =>
            /\ call[p].ret = Return(TRUE, NoInfo)
            /\ call[p].n_error <= 1

\* C8: with fail_strategy "closed" and the store unreachable, the limiter is
\* there to be called, and allow("user") raises BackendUnavailable and invokes
\* the error observer exactly once (never more; an observer that is not set is
\* not invoked).
C8_FailClosed ==
    /\ \A l \in Limiters :
         (lim[l].state = "failed" /\ lim[l].fail_strategy = "closed") =>
            lim[l].error # "ConnectionError"
    /\ \A p \in Procs :
         (Unreachable(p) /\ lim[call[p].l].fail_strategy = "closed") =>
            /\ call[p].ret = Raise("BackendUnavailable")
            /\ call[p].n_error <= 1

\* The call of caller p has ended on a reply that is not a 3-element sequence.
Malformed(p) ==
    /\ call[p].phase = "returned"
    /\ call[p].reply.kind = "result"
    /\ Len(call[p].reply.val) # 3

\* The call of caller p has ended on the store refusing the script or its
\* arguments.
Refused(p) ==
    /\ call[p].phase = "returned"
    /\ call[p].reply.kind = "error"
    /\ call[p].reply.exc = "ResponseError"

\* C9: only connectivity and timeout failures go through the fail strategy: a
\* malformed result surfaces as AlgorithmError and a refusal by the store as
\* an error of its own kind, under both fail strategies; neither becomes
\* (True, None) nor BackendUnavailable.
C9_OnlyUnavailabilityIsPolicy ==
    \A p \in Procs :
      /\ Malformed(p) => call[p].ret = Raise("AlgorithmError")
      /\ Refused(p) =>
            /\ call[p].ret.kind = "raise"
            /\ call[p].ret.exc \notin {"BackendUnavailable", "ObserverError"}

\* The call of caller p has ended on a well-formed reply of the store.
Answered(p) ==
    /\ call[p].phase = "returned"
    /\ call[p].reply.kind = "result"
    /\ Len(call[p].reply.val) = 3

\* The call of caller p has ended on a connection or timeout failure.
Unavailable(p) ==
    /\ call[p].phase = "returned"
    /\ call[p].reply.kind = "error"
    /\ call[p].reply.exc \in {"ConnectionError", "TimeoutError"}

\* C10: an exception raised by an observer never changes the outcome: a check
\* the store decided returns that decision (allowed, info) whatever on_allow
\* or on_block does, and a check that found the store unavailable gets the
\* fail-strategy outcome whatever on_error does.
C10_ObserversIsolated ==
    \A p \in Procs :
      /\ Answered(p) =>
            /\ call[p].ret.kind = "return"
            /\ call[p].ret.info # NoInfo
            /\ call[p].ret.allowed = (call[p].reply.val[1] = 1)
      /\ Unavailable(p) =>
            call[p].ret = IF lim[call[p].l].fail_strategy = "open"
                          THEN Return(TRUE, NoInfo)
                          ELSE Raise("BackendUnavailable")

\* The decision the store took for the call of caller p.
StoreAllowed(p) == call[p].reply.val[1] = 1

\* C11: for every check the store evaluates successfully, with
\* the observers configured, exactly one of on_allow / on_block is invoked
\* exactly once before allow returns -- on_allow iff allowed, on_block iff not
\* allowed -- on_error is not invoked, and the decision the observer received
\* is the decision returned to the caller.
C11_ExactlyOneObserver ==
    \A p \in Procs :
      (Answered(p) /\ call[p].observer # "unset") =>
         /\ call[p].n_allow + call[p].n_block = 1
         /\ (call[p].n_allow = 1) = StoreAllowed(p)
         /\ (call[p].n_block = 1) = ~StoreAllowed(p)
         /\ call[p].n_error = 0
         /\ call[p].ret.kind = "return"
         /\ call[p].seen = call[p].ret.info

\* The identities the contract calls invalid: the empty string, a value that
\* is not a string, a string of more than 1024 characters.
InvalidIdentity(identity) == identity \in {"", "#123", "x*5000"}

\* The call of caller p came in through the entry point of its limiter's
\* calling convention.
RightConvention(p) ==
    (call[p].api = "allow_async") = lim[call[p].l].async_mode

C13_IdentityErrorIsConfigurationError ==
    \A p \in Procs :
      (call[p].phase = "returned" /\ call[p].api = "allow" /\ RightConvention(p)
         /\ InvalidIdentity(call[p].identity)) =>
         /\ call[p].ret.kind = "raise"
         /\ IsInstance(call[p].ret.exc, "ConfigurationError")

\* The inputs the contract calls invalid: an invalid identity, or a cost that
\* is not positive.
InvalidInput(c) == InvalidIdentity(c.identity) \/ c.cost <= 0

InvalidParams == params.rate <= 0 \/ params.per <= 0 \/ Capacity <= 0

\* C15: configuration errors surface as ConfigurationError and never go
\* through the fail strategy: a constructor call with rate <= 0, per <= 0,
\* capacity (burst) <= 0 or a fail strategy other than open / closed raises
\* ConfigurationError -- so every limiter that exists has rate, per and
\* capacity positive and a known fail strategy, and no check is evaluated for
\* an invalid configuration -- and allow with a cost that is not positive
\* raises ConfigurationError.
C15_ConfigurationErrorsSurface ==
    /\ \A l \in Limiters :
         /\ (lim[l].state # "unbuilt"
               /\ (InvalidParams \/ lim[l].fail_strategy \notin FailStrategies)) =>
               (lim[l].state = "failed" /\ lim[l].error = "ConfigurationError")
         /\ lim[l].state = "ready" =>
               (lim[l].rate > 0 /\ lim[l].per > 0 /\ lim[l].burst > 0)
    /\ InvalidParams => log = << >>
    /\ \A p \in Procs :
         (call[p].phase = "returned" /\ RightConvention(p) /\ call[p].cost <= 0) =>
            call[p].ret = Raise("ConfigurationError")

\* C16: the two calling conventions exclude each other per instance: every
\* allow on a limiter with async_mode = True and every allow_async on one with
\* async_mode = False is rejected (RuntimeError), and a rejected call makes no
\* round trip, changes no bucket and invokes no observer: the step that takes
\* it leaves the store, the history and the limiter alone.
C16_ConventionsExclusive ==
    [][\A p \in Procs :
         (call'[p] # call[p]
            /\ (call'[p].api = "allow") = lim[call'[p].l].async_mode) =>
            /\ call'[p].phase = "returned"
            /\ call'[p].ret = Raise("RuntimeError")
            /\ call'[p].trips = 0
            /\ call'[p].n_allow = 0 /\ call'[p].n_block = 0 /\ call'[p].n_error = 0
            /\ call'[p].reply = NoReply
            /\ store' = store /\ log' = log /\ lim' = lim]_vars

\* Witness of C16: allow_async with a valid identity and cost on a
\* synchronous limiter, whose store is reachable and holds a bucket, raised
\* RuntimeError.
C16_Witness ==
    /\ engineUp
    /\ lim["L1"].state = "ready" /\ ~lim["L1"].async_mode
    /\ call["p1"].phase = "returned"
    /\ call["p1"].api = "allow_async"
    /\ call["p1"].identity = "u" /\ call["p1"].cost = 1
    /\ call["p1"].ret = Raise("RuntimeError")
    /\ Len(log) = 1

\* C17: every admission check that reaches the store, through the sync or the
\* async adapter, the first one after construction included, costs exactly one
\* network round trip (trips counts the requests of one call: PING, EVALSHA);
\* the requests the client library adds when the store reports the script
\* unknown are left aside.
C17_OneRoundTrip ==
    \A p \in Procs :
      (/\ call[p].phase \in {"replied", "returned"}
       /\ call[p].reply # NoReply
       /\ ~call[p].reply.unknown) =>
         call[p].trips = 1

\* The tokens (1/Scale units) the script finds under key k at the present
\* store time, before the admission test.
TokensNow(k) ==
    IF store[k] = NoBucket THEN Capacity * Scale
    ELSE TokensFound(store[k].tokens, now - store[k].last_refill)

\* C18: no check is retried.  In every step: a call whose request has been
\* answered (or timed out) is never put on the wire again; a request goes out
\* only for a newly begun call; the history grows by one evaluation at a time,
\* and only as the request of a call on the wire is served, so evaluations
\* never outnumber calls; and when the reply of an evaluated request is lost
\* (timeout after the store committed) the bucket holds no less than what the
\* script found minus the cost of that one call.
C18_NeverRetried ==
    [][/\ Len(log') <= ncalls'
       /\ \A p \in Procs :
            /\ call[p].phase = "replied" => call'[p].phase \in {"replied", "returned"}
            /\ (call[p].phase \notin {"registering", "sent"}
                  /\ call'[p].phase \in {"registering", "sent"}) =>
                  ncalls' = ncalls + 1
            /\ call[p].phase = "sent" => call'[p].phase \in {"sent", "replied"}
            /\ (call[p].phase = "sent" /\ call'[p].phase = "replied"
                  /\ call'[p].reply.exc = "TimeoutError") =>
                  /\ Len(log') = Len(log) + 1
                  /\ store'[call[p].key].tokens >=
                        TokensNow(call[p].key) - call[p].cost * Scale
       /\ log' # log =>
            /\ Len(log') = Len(log) + 1
            /\ \E p \in Procs :
                 /\ call[p].phase = "sent" /\ call'[p].phase = "replied"
                 /\ log'[Len(log')].key = call[p].key]_vars

\* Witness of C18: the only call made so far timed out after the store had
\* evaluated it; the fail-closed limiter raised BackendUnavailable, and the
\* bucket of capacity >= 2 was debited one token, once.
C18_Witness ==
    /\ ncalls = 1
    /\ call["p1"].phase = "returned"
    /\ call["p1"].reply.exc = "TimeoutError"
    /\ lim["L1"].fail_strategy = "closed"
    /\ call["p1"].ret = Raise("BackendUnavailable")
    /\ Len(log) = 1
    /\ Capacity >= 2
    /\ store[call["p1"].key].tokens = (Capacity - 1) * Scale

\* C19: retry_after (also reset_after, and RateLimit-Reset of as_headers) is
\* the time until reset: for a decision evaluated at store time t with
\* absolute reset r it is max(0, r - t), so a decision whose bucket is not
\* full reports a retry_after greater than 0 (times compared in ticks).
C19_RetryAfterIsTimeToReset ==
    \A p \in Procs :
      Decided(call[p]) =>
        LET info == call[p].ret.info
            t == call[p].reply.at
        IN  /\ retry_after(info) * TicksPerSec = Max(0, info.reset * TicksPerSec - t)
            /\ reset_after(info) = retry_after(info)
            /\ as_headers(info).Reset = retry_after(info)
            /\ call[p].reply.val[2] < lim[call[p].l].burst * Scale =>
                  retry_after(info) > 0

\* C20: the admission step, applied to the refilled token count `found`, with
\* the cost passed to allow: if found >= cost the check is allowed and the
\* tokens written are found - cost; otherwise it is rejected and the tokens
\* written are found; for every cost >= 1.
C20_AdmissionDebitsCost ==
    \A k \in AllKeys :
      LET L == KeyLog(k) IN
      \A i \in 1..Len(L) :
         LET found == IF L[i].fresh THEN Capacity * Scale
                      ELSE TokensFound(L[i - 1].tokens, L[i].at - L[i - 1].at)
             cost == L[i].cost * Scale
         IN  /\ L[i].allowed = (found >= cost)
             /\ L[i].tokens = (IF found >= cost THEN found - cost ELSE found)

\* C21: for every check, the argument list handed to the executor is the
\* descriptor's static arguments (rate, per, capacity, in that order) followed
\* by the per-call cost: ARGV[4] of the script is the cost the caller passed.
C21_ArgsCarryCost ==
    \A p \in Procs :
      call[p].argv # << >> =>
         LET self == lim[call[p].l] IN
         /\ Len(call[p].argv) = 4
         /\ call[p].argv = <<self.rate, self.per, self.burst, call[p].cost>>

\* C22: bucket-state invariant.  Every existing bucket holds 0 <= tokens <=
\* capacity, and in every step that evaluates a check on key k -- admitted or
\* rejected -- the bucket written has lastRefillTimestamp = now and holds what
\* the refill min(capacity, tokens + delta * rate / per), delta = max(0, now -
\* lastRefillTimestamp), yields, less the cost if the check is admitted;
\* no other step writes a bucket.
C22_BucketInvariant ==
    [][\A k \in AllKeys :
         /\ store'[k] # NoBucket =>
               (0 <= store'[k].tokens /\ store'[k].tokens <= Capacity * Scale)
         /\ (store'[k] # store[k] /\ store'[k] # NoBucket) =>
               /\ Len(log') = Len(log) + 1
               /\ log'[Len(log')].key = k
         /\ (Len(log') = Len(log) + 1 /\ log'[Len(log')].key = k) =>
               LET e == log'[Len(log')] IN
               /\ store'[k].last_refill = now
               /\ store'[k].tokens =
                    (IF e.allowed THEN TokensNow(k) - Scale ELSE TokensNow(k))
               /\ e.allowed = (TokensNow(k) >= Scale)]_vars

\* Witness of C22: a rejected check, evaluated after time had passed, left a
\* bucket holding a fraction of a token and stamped with the time of that check.
C22_Witness ==
    \E k \in AllKeys :
      LET L == KeyLog(k) IN
      /\ L # << >>
      /\ ~L[Len(L)].allowed
      /\ now > 0
      /\ store[k] # NoBucket
      /\ store[k].last_refill = now
      /\ store[k].tokens > 0 /\ store[k].tokens < Scale

\* The entries of L strictly between i and j are all rejected checks.
NoneAdmittedBetween(L, i, j) == \A n \in (i + 1)..(j - 1) : ~L[n].allowed

\* The check L[j] found the bucket at exactly capacity before the admission
\* test: it is admitted and leaves capacity less its cost.
FoundFull(L, j) == L[j].allowed /\ L[j].tokens = Capacity * Scale - Scale

\* C23 (as stated): the reset returned by a check evaluated at store time now
\* that leaves `tokens` is reset = now + ceil((capacity - tokens) * per / rate)
\* (compared in ticks), and a check evaluated at or after reset, with no
\* check consuming tokens in between, finds the bucket at exactly capacity.
C23_ResetIsNowPlusCeil ==
    \A k \in AllKeys :
      LET L == KeyLog(k) IN
      \A i \in 1..Len(L) :
         /\ L[i].reset * TicksPerSec =
               L[i].at + TicksPerSec *
                  CeilDiv((Capacity * Scale - L[i].tokens) * params.per,
                          Scale * params.rate)
         /\ \A j \in (i + 1)..Len(L) :
               (NoneAdmittedBetween(L, i, j) /\ L[j].at >= L[i].reset * TicksPerSec) =>
                  FoundFull(L, j)

\* C23 (amended): the reset returned by a check evaluated at store time now
\* that leaves `tokens` is ceil(now + (capacity - tokens) * per / rate): the
\* first whole second at or after the time the refill brings the bucket back
\* to capacity; and a check evaluated at or after reset, with no check
\* consuming tokens in between, finds the bucket at exactly capacity.
C23_ResetIsCeilOfFullTime ==
    \A k \in AllKeys :
      LET L == KeyLog(k) IN
      \A i \in 1..Len(L) :
         LET full == L[i].at * PerUnit * params.rate
                       + (Capacity * Scale - L[i].tokens) * params.per
             unit == Scale * params.rate
         IN  /\ L[i].reset * unit >= full
             /\ (L[i].reset - 1) * unit < full
             /\ \A j \in (i + 1)..Len(L) :
                  (NoneAdmittedBetween(L, i, j)
                     /\ L[j].at >= L[i].reset * TicksPerSec) =>
                     FoundFull(L, j)

\* Witness of C23: a check at a store time that is not a whole second left the
\* bucket short of capacity; a rejected check followed, and the first check at
\* or after the announced reset found the bucket full, before the key expired.
C23_Witness ==
    \E k \in AllKeys :
      LET L == KeyLog(k) IN
      \E i \in 1..Len(L) :
         /\ i + 1 <= Len(L)
         /\ L[i].at % TicksPerSec # 0
         /\ L[i].tokens < Capacity * Scale
         /\ ~L[Len(L)].fresh
         /\ L[Len(L)].at >= L[i].reset * TicksPerSec
         /\ NoneAdmittedBetween(L, i, Len(L))
         /\ FoundFull(L, Len(L))

\* The idle interval after which a key expires: 2 * per seconds, in ticks.
IdleLimit == 2 * params.per * TicksPerSec

\* C24: every check that reaches the store, admitted or rejected, sets the
\* key's expiration to 2 * per seconds after that check; a bucket is never
\* removed while no more than 2 * per seconds have passed since the most
\* recent check on it, no bucket outlives that interval, and the next check
\* on a removed bucket re-creates it (tokens = capacity before the admission
\* test, lastRefillTimestamp = now).
C24_IdleExpiry ==
    [][\A k \in AllKeys :
         /\ store'[k] # NoBucket =>
               /\ store'[k].expire_at = store'[k].last_refill + IdleLimit
               /\ now' <= store'[k].last_refill + IdleLimit
         /\ (Len(log') = Len(log) + 1 /\ log'[Len(log')].key = k) =>
               /\ store'[k].expire_at = now + IdleLimit
               /\ log'[Len(log')].fresh = (store[k] = NoBucket)
               /\ log'[Len(log')].fresh =>
                    (FoundFull(log', Len(log')) /\ store'[k].last_refill = now)
         /\ (store[k] # NoBucket /\ store'[k] = NoBucket) =>
               now' > store[k].last_refill + IdleLimit]_vars

\* Witness of C24: a rejected check was the last one on its key, the key was
\* removed after more than 2 * per seconds without a check, and the next check
\* re-created the bucket at capacity.
C24_Witness ==
    \E k \in AllKeys :
      LET L == KeyLog(k) IN
      /\ Len(L) >= 3
      /\ ~L[Len(L) - 1].allowed
      /\ L[Len(L)].at > L[Len(L) - 1].at + IdleLimit
      /\ L[Len(L)].fresh
      /\ FoundFull(L, Len(L))
      /\ store[k] # NoBucket
      /\ store[k].last_refill = L[Len(L)].at

\* C25: a check addresses exactly one bucket, at key
\* namespace:token_bucket:sha256(resolved identity), the resolved identity
\* being key_func(identity), or the identity when no key_func is configured:
\* two evaluated checks have the same key if and only if their namespace and
\* resolved identity are equal, no part of the key is the identity as passed
\* or as resolved, and the step that evaluates a check writes the bucket at
\* its key and leaves the tokens, lastRefillTimestamp and expiration of every
\* other key unchanged (stated of each check as it is evaluated, against all
\* the checks evaluated before it).
C25_OneBucketPerKey ==
    [][Len(log') = Len(log) + 1 =>
         LET e == log'[Len(log')] IN
         /\ \A j \in 1..Len(log) :
               (e.key = log[j].key) =
                  (e.namespace = log[j].namespace /\ e.resolved = log[j].resolved)
         /\ Len(e.key) = 3
         /\ e.key[1] = e.namespace
         /\ e.key[2] = "token_bucket"
         /\ e.key[3] \notin {e.identity, e.resolved}
         /\ store'[e.key] # NoBucket /\ store'[e.key].tokens = e.tokens
         /\ \A k \in AllKeys : k # e.key => store'[k] = store[k]]_vars

\* Witness of C25: through a limiter with a key_func, checks for two
\* identities that resolve to one tenant drained one bucket of capacity 1,
\* while a check in another namespace was admitted from a bucket of its own.
C25_Witness ==
    /\ Len(log) = 3
    /\ log[1].identity # log[2].identity
    /\ log[1].resolved = log[2].resolved
    /\ log[1].key = log[2].key
    /\ log[1].allowed /\ ~log[2].allowed
    /\ log[3].namespace # log[1].namespace
    /\ log[3].resolved = log[1].resolved
    /\ log[3].key # log[1].key
    /\ log[3].fresh /\ log[3].allowed
    /\ store[log[1].key] # NoBucket

\* C27: the script cache is safe under concurrent use of one adapter: every
\* entry of the cache is the content hash of the script it was registered
\* for, a call goes on the wire only once it holds a handle (a cache hit or
\* its own registration), and absent failures a script is registered once and
\* then reused: no call registers a script whose hash is in the cache already.
C27_ScriptCacheSafe ==
    [][/\ \A l \in Limiters :
            lim'[l].script_cache \subseteq {_script_key(lua_script)}
       /\ \A p \in Procs :
            /\ (call[p].phase # "sent" /\ call'[p].phase = "sent") =>
                  _script_key(lua_script) \in lim'[call'[p].l].script_cache
            /\ (call[p].phase = "registering" /\ call'[p].phase = "sent") =>
                  _script_key(lua_script) \notin lim[call[p].l].script_cache]_vars

\* C26: when the store reports a registered script unknown, the condition is
\* recovered from and not surfaced: the call ends with the store's decision,
\* not with an error or a fail-strategy outcome, and on_error is not invoked.
C26_UnknownScriptRecovered ==
    \A p \in Procs :
      (call[p].phase = "returned" /\ call[p].reply.unknown) =>
         /\ Decided(call[p])
         /\ call[p].n_error = 0

\* ------------------------------------------------------------ idle expiry
MaxTimeExpiry == 5
MaxCallsExpiry == 6

\* One sync limiter and one caller: unit-cost checks on one identity,
\* separated by idle periods of up to MaxTimeExpiry ticks.
NextExpiry ==
    \/ Construct("L1", params.rate, params.per, params.burst, "default", "open", FALSE, None)
    \/ ncalls < MaxCallsExpiry /\ Allow_Begin("p1", "L1", "u", 1, "allow", "ok")
    \/ Register_Script("p1")
    \/ Engine_Exec("p1", "ok")
    \/ Allow_End("p1", "ok", "ok", "ok")
    \/ \E d \in 1..MaxTimeExpiry : now + d <= MaxTimeExpiry /\ Tick(d)

SpecExpiry == InitBucket /\ [][NextExpiry]_vars

\* The total cost of the admitted checks among entries i..j of L.
RECURSIVE AdmittedCost(_, _, _)
AdmittedCost(L, i, j) ==
    IF i > j THEN 0
    ELSE (IF L[i].allowed THEN L[i].cost ELSE 0) + AdmittedCost(L, i + 1, j)

\* C28: on every key, the total cost admitted by the checks evaluated within
\* any interval of store time of length T is at most capacity + T * rate / per
\* (times in ticks; both sides multiplied by per * TicksPerSec).
C28_RateBound ==
    \A k \in AllKeys :
      LET L == KeyLog(k) IN
      \A i \in 1..Len(L) : \A j \in i..Len(L) :
         AdmittedCost(L, i, j) * params.per * TicksPerSec
            <= Capacity * params.per * TicksPerSec
               + (L[j].at - L[i].at) * params.rate

\* The first n checks of the log replayed against a store that never expires
\* a key: the store they leave and the admissions they get.
RECURSIVE ReplayNoExpiry(_)
ReplayNoExpiry(n) ==
    IF n = 0 THEN [st |-> [k \in AllKeys |-> NoBucket], out |-> << >>]
    ELSE LET prev == ReplayNoExpiry(n - 1)
             e == log[n]
             k == _build_key(RefSelf, e.identity)
             r == LuaScript(prev.st[k], e.at, _build_args(RefSelf, e.cost))
         IN  [st |-> [prev.st EXCEPT ![k] = r.data],
              out |-> Append(prev.out, r.result[1] = 1)]

\* C29: the admissions the store gives, with keys removed after 2 * per idle
\* seconds, are the admissions the same checks get at the same times from
\* the algorithm with no expiry.
C29_ExpiryNeutral ==
    LET R == ReplayNoExpiry(Len(log)) IN
    \A i \in 1..Len(log) : log[i].allowed = R.out[i]

\* C30: rejected checks forfeit no accrued refill.  On every key, a check
\* L[j] that follows a check L[a] with only rejected checks in between, and
\* is evaluated at or after the time continuous refill from what L[a] left
\* reaches its cost, is admitted: the re-issued check is admitted no later
\* than the first attempt at or after the time the bucket would have held
\* `cost` tokens had the rejected attempts not been made.
C30_PollingKeepsRefill ==
    \A k \in AllKeys :
      LET L == KeyLog(k) IN
      \A a \in 1..Len(L) : \A j \in (a + 1)..Len(L) :
         (/\ NoneAdmittedBetween(L, a, j)
          /\ L[j].cost <= Capacity
          /\ TokensFound(L[a].tokens, L[j].at - L[a].at) >= L[j].cost * Scale) =>
            L[j].allowed

\* Witness of C30: a check left the bucket short of one token; a re-issued
\* check was rejected before the refill had reached the cost; the next
\* attempt, on the same hash and closer to the rejected one than the time
\* one token takes to accrue, was admitted.
C30_Witness ==
    \E k \in AllKeys :
      LET L == KeyLog(k) IN
      /\ Len(L) >= 3
      /\ LET a == Len(L) - 2
             n == Len(L) - 1
             j == Len(L)
         IN  /\ L[a].tokens < L[j].cost * Scale
             /\ L[a].at < L[n].at /\ L[n].at < L[j].at
             /\ ~L[n].allowed /\ ~L[n].fresh
             /\ ~L[j].fresh
             /\ (L[j].at - L[n].at) * params.rate * (PerUnit \div params.per)
                   < L[j].cost * Scale
             /\ L[j].allowed

====
